---- MODULE Spec2Model ----
(***************************************************************************)
(* The Topology class of TopologyFromTraceroute: a list of unique nodes    *)
(* and a list of neighbour pairs given as zero-based indices into it.      *)
(* The repository holds two copies of the class, one in                    *)
(* topologyfromtraceroute.py and one in topologyfromchains.py; they differ *)
(* in the last statement of add_neighb only.  The variable impl says which *)
(* copy the modelled Topology object is an instance of.                    *)
(***************************************************************************)
EXTENDS Integers, Sequences, FiniteSets, TLC

\* Bounds of the model.
MaxEdges == 2         \* a call is explored only if it leaves len(neighbs) <= MaxEdges
MaxChainLen == 3      \* longest chain handed to add_chain
MaxChains == 2        \* most chains handed to one add_chains call
MaxProjChainLen == 2  \* longest chain inside an add_chains call

VARIABLES impl, nodes, neighbs, raised, last

vars == <<impl, nodes, neighbs, raised, last>>

Impls == {"traceroute", "chains"}

(***************************************************************************)
(* Values                                                                  *)
(***************************************************************************)

\* Host = namedtuple('Host', ['hostname', 'ip']): a 2-tuple compared by value.
\* An IPv4 address is the tuple of its four octets.
Host(hostname, ip) == <<hostname, ip>>

H1 == Host("h1", <<1, 1, 1, 1>>)
H2 == Host("h2", <<1, 1, 1, 2>>)
H3 == Host("h3", <<1, 1, 1, 3>>)
H4 == Host("h4", <<2, 2, 2, 1>>)

\* The hosts the direct calls draw from, and the hosts of the chain files.
Nodes == {H1, H2, H4}
Hosts == {H1, H2, H3, H4}

\* get_network: '.'.join(str(host.ip).split('.')[0:3]), the dotted string of
\* the first three octets, written as the tuple of those octets.
get_network(host) == SubSeq(host[2], 1, 3)

Funcs == {"identity", "get_network"}

\* func(j) for the two functions main() passes to add_chains.
Apply(func, node) == IF func = "identity" THEN node ELSE get_network(node)

Range(s) == {s[k] : k \in 1..Len(s)}

SeqsUpTo(S, n) == UNION {[1..k -> S] : k \in 0..n}

(***************************************************************************)
(* The Topology class                                                      *)
(***************************************************************************)

\* Topology.__init__
EmptyTopology == [nodes |-> <<>>, neighbs |-> <<>>, raised |-> "none"]

\* Topology.__contains__
Contains(ns, key) == key \in Range(ns)

\* Topology.query_node: list.index, the zero-based index of the first
\* occurrence (callers look up present nodes only).
query_node(ns, node) ==
    (CHOOSE k \in 1..Len(ns) : ns[k] = node /\ \A j \in 1..(k - 1) : ns[j] # node) - 1

\* A plausible slip: the membership test is dropped and the node appended anyway.
InsertNodeAlways(ns, node) == Append(ns, node)

\* "if node not in self: self.nodes.append(node)"
InsertNode(ns, node) == IF Contains(ns, node) THEN ns ELSE Append(ns, node)

\* A plausible slip: the pair is stored in argument order.
NeighbPairUnordered(idx1, idx2) == <<idx1, idx2>>

\* "(idx1, idx2) if idx1 < idx2 else (idx2, idx1)"
NeighbPair(idx1, idx2) == IF idx1 < idx2 THEN <<idx1, idx2>> ELSE <<idx2, idx1>>

\* add_neighb of topologyfromtraceroute.py: the pair is appended unconditionally.
add_neighb_traceroute(t, node1, node2) ==
    LET ns1  == InsertNode(t.nodes, node1)
        ns2  == InsertNode(ns1, node2)
        idx1 == query_node(ns2, node1)
        idx2 == query_node(ns2, node2)
    IN  [nodes   |-> ns2,
         neighbs |-> Append(t.neighbs, NeighbPair(idx1, idx2)),
         raised  |-> "none"]

\* add_neighb of topologyfromchains.py: the membership test guards
\* "neighbs.append(neighb)", where neighbs is a name bound neither locally nor
\* globally, so that statement raises NameError after the nodes were inserted.
add_neighb_chains(t, node1, node2) ==
    LET ns1    == InsertNode(t.nodes, node1)
        ns2    == InsertNode(ns1, node2)
        idx1   == query_node(ns2, node1)
        idx2   == query_node(ns2, node2)
        neighb == NeighbPair(idx1, idx2)
    IN  IF neighb \notin Range(t.neighbs)
        THEN [nodes |-> ns2, neighbs |-> t.neighbs, raised |-> "NameError"]
        ELSE [nodes |-> ns2, neighbs |-> t.neighbs, raised |-> "none"]

add_neighb(i, t, node1, node2) ==
    IF i = "traceroute" THEN add_neighb_traceroute(t, node1, node2)
                        ELSE add_neighb_chains(t, node1, node2)

\* [k for k, g in itertools.groupby(chain)]: one element per run of equal elements.
RECURSIVE groupby(_)
groupby(chain) ==
    IF Len(chain) <= 1 THEN chain
    ELSE LET rest == groupby(Tail(chain))
         IN  IF Head(chain) = Head(rest) THEN rest ELSE <<Head(chain)>> \o rest

\* The loop of add_chain from index i (zero-based) on; an exception raised by
\* add_neighb leaves the loop and the method.
RECURSIVE add_chain_loop(_, _, _, _)
add_chain_loop(i, t, chain_uniq, k) ==
    IF k >= Len(chain_uniq) - 1 THEN t
    ELSE LET r == add_neighb(i, t, chain_uniq[k + 1], chain_uniq[k + 2])
         IN  IF r.raised # "none" THEN r ELSE add_chain_loop(i, r, chain_uniq, k + 1)

\* A plausible slip: the first node of the chain is inserted before the loop.
add_chain_inserting(i, t, chain) ==
    LET chain_uniq == groupby(chain)
        t0 == IF chain_uniq = <<>> THEN t
              ELSE [t EXCEPT !.nodes = InsertNode(t.nodes, chain_uniq[1])]
    IN  add_chain_loop(i, [t0 EXCEPT !.raised = "none"], chain_uniq, 0)

\* Topology.add_chain
add_chain(i, t, chain) ==
    add_chain_loop(i, [t EXCEPT !.raised = "none"], groupby(chain), 0)

\* The generator "func(j) for j in i" as the list groupby draws from it.
Projected(func, chain) == [k \in 1..Len(chain) |-> Apply(func, chain[k])]

\* Topology.add_chains: an exception raised by add_chain ends the loop.
RECURSIVE add_chains(_, _, _, _)
add_chains(i, t, chains, func) ==
    IF chains = <<>> THEN [t EXCEPT !.raised = "none"]
    ELSE LET r == add_chain(i, t, Projected(func, Head(chains)))
         IN  IF r.raised # "none" THEN r ELSE add_chains(i, r, Tail(chains), func)

(***************************************************************************)
(* The state machine: one Topology object and the calls made on it         *)
(***************************************************************************)

Self == [nodes |-> nodes, neighbs |-> neighbs, raised |-> raised]

NoCall == [op |-> "init", node1 |-> H1, node2 |-> H1, chain |-> <<>>,
           chains |-> <<>>, func |-> "identity"]

Init ==
    /\ impl \in Impls
    /\ nodes = EmptyTopology.nodes
    /\ neighbs = EmptyTopology.neighbs
    /\ raised = "none"
    /\ last = NoCall

Becomes(r) ==
    /\ Len(r.neighbs) <= MaxEdges
    /\ nodes' = r.nodes
    /\ neighbs' = r.neighbs
    /\ raised' = r.raised
    /\ UNCHANGED impl

\* A call topology.add_neighb(node1, node2)
AddNeighbCall ==
    \E node1 \in Nodes, node2 \in Nodes :
        /\ Becomes(add_neighb(impl, Self, node1, node2))
        /\ last' = [NoCall EXCEPT !.op = "add_neighb", !.node1 = node1, !.node2 = node2]

\* A call topology.add_chain(chain)
AddChainCall ==
    \E chain \in SeqsUpTo(Nodes, MaxChainLen) :
        /\ Becomes(add_chain(impl, Self, chain))
        /\ last' = [NoCall EXCEPT !.op = "add_chain", !.chain = chain]

\* main(): a fresh Topology() and one add_chains(chains, func) call on it.
AddChainsCall ==
    \E chains \in SeqsUpTo(SeqsUpTo(Hosts, MaxProjChainLen), MaxChains), func \in Funcs :
        /\ last.op = "init"
        /\ Becomes(add_chains(impl, Self, chains, func))
        /\ last' = [NoCall EXCEPT !.op = "add_chains", !.chains = chains, !.func = func]

Next == AddNeighbCall \/ AddChainCall

Spec == Init /\ [][Next]_vars

NextMain == AddChainsCall

SpecMain == Init /\ [][NextMain]_vars

(***************************************************************************)
(* Vocabulary of the properties                                            *)
(***************************************************************************)

Min(i, j) == IF i <= j THEN i ELSE j
Max(i, j) == IF i <= j THEN j ELSE i

\* The node a stored zero-based index denotes.
NodeAt(ns, i) == ns[i + 1]

\* The edges of a topology read as unordered pairs of node values.
EdgeValues(ns, es) == {{NodeAt(ns, es[k][1]), NodeAt(ns, es[k][2])} : k \in 1..Len(es)}

\* The unordered pairs of different adjacent nodes of a chain.
AdjacentPairs(chain) ==
    {{chain[k], chain[k + 1]} : k \in {j \in 1..(Len(chain) - 1) : chain[j] # chain[j + 1]}}

(***************************************************************************)
(* C1: neighbs never holds the same pair twice, whatever calls were made.  *)
(***************************************************************************)
C1_NoDuplicateEdges ==
    \A j, k \in 1..Len(neighbs) : neighbs[j] = neighbs[k] => j = k

(***************************************************************************)
(* C2: a second add_chain(c) right after add_chain(c) changes neither      *)
(* nodes nor neighbs.                                                      *)
(***************************************************************************)
C2_AddChainIdempotent ==
    [][(last.op = "add_chain" /\ last'.op = "add_chain" /\ last'.chain = last.chain)
          => (nodes' = nodes /\ neighbs' = neighbs)]_vars

(***************************************************************************)
(* C3: add_neighb(a, b) with a # b does not raise; afterwards both nodes   *)
(* are in nodes (both missing: a gets the lower index, b the next one) and *)
(* the pair (min, max) of their indices is in neighbs; if that pair was    *)
(* there already, nodes and neighbs are unchanged.                         *)
(***************************************************************************)
C3_AddNeighbContract ==
    [][(last'.op = "add_neighb" /\ last'.node1 # last'.node2) =>
          LET a == last'.node1
              b == last'.node2
          IN  /\ raised' = "none"
              /\ Contains(nodes', a)
              /\ Contains(nodes', b)
              /\ (~Contains(nodes, a) /\ ~Contains(nodes, b))
                    => /\ query_node(nodes', a) = Len(nodes)
                       /\ query_node(nodes', b) = Len(nodes) + 1
              /\ LET ia == query_node(nodes', a)
                     ib == query_node(nodes', b)
                     pair == <<Min(ia, ib), Max(ia, ib)>>
                 IN  /\ pair \in Range(neighbs')
                     /\ pair \in Range(neighbs) => (nodes' = nodes /\ neighbs' = neighbs)
       ]_vars

(***************************************************************************)
(* C4: neighbs never holds a pair (i, i), and a call add_neighb(n, n)      *)
(* raises nothing.                                                         *)
(***************************************************************************)
C4_NoSelfLoops ==
    /\ \A k \in 1..Len(neighbs) : neighbs[k][1] # neighbs[k][2]
    /\ (last.op = "add_neighb" /\ last.node1 = last.node2) => raised = "none"

(***************************************************************************)
(* C5: every stored pair (i, j) has 0 <= i <= j < len(nodes).              *)
(***************************************************************************)
C5_EdgesWellFormed ==
    \A k \in 1..Len(neighbs) :
        /\ 0 <= neighbs[k][1]
        /\ neighbs[k][1] <= neighbs[k][2]
        /\ neighbs[k][2] < Len(nodes)

\* add_neighb was called with the later-inserted node first and stored the pair
\* with the indices swapped.
C5_Witness ==
    /\ last.op = "add_neighb"
    /\ raised = "none"
    /\ Contains(nodes, last.node1) /\ Contains(nodes, last.node2)
    /\ query_node(nodes, last.node1) > query_node(nodes, last.node2)
    /\ neighbs # <<>>
    /\ neighbs[Len(neighbs)] =
          <<query_node(nodes, last.node2), query_node(nodes, last.node1)>>

(***************************************************************************)
(* C6: nodes holds no value twice, and every node keeps the index it was   *)
(* inserted at: each step leaves every present node present with the same  *)
(* query_node result and the same position in the list.                    *)
(***************************************************************************)
NodesUnique == \A j, k \in 1..Len(nodes) : nodes[j] = nodes[k] => j = k

IndexKept ==
    /\ Len(nodes') >= Len(nodes)
    /\ \A k \in 1..Len(nodes) :
          /\ nodes'[k] = nodes[k]
          /\ query_node(nodes', nodes[k]) = k - 1

C6_NodesUniqueAndStable == []NodesUnique /\ [][IndexKept]_vars

\* A node inserted first was looked up again after two later insertions, and an
\* edge stored before those insertions still refers to it.
C6_Witness ==
    /\ Len(nodes) = 3
    /\ Len(neighbs) >= 2
    /\ last.op = "add_neighb"
    /\ raised = "none"
    /\ last.node1 = nodes[1]
    /\ last.node2 = nodes[3]
    /\ neighbs[1] = <<0, 1>>
    /\ neighbs[Len(neighbs)] = <<0, 2>>

(***************************************************************************)
(* C7: on an empty Topology add_chain(c) stores exactly the unordered      *)
(* pairs of different adjacent nodes of c, each once (so [x, y, x] stores  *)
(* one edge).                                                              *)
(***************************************************************************)
C7_RunLengthCollapse ==
    [][(nodes = <<>> /\ neighbs = <<>> /\ last'.op = "add_chain") =>
          /\ EdgeValues(nodes', neighbs') = AdjacentPairs(last'.chain)
          /\ Len(neighbs') = Cardinality(AdjacentPairs(last'.chain))
       ]_vars

(***************************************************************************)
(* C8 as claimed: add_chain([x]) leaves neighbs unchanged and x in nodes;  *)
(* add_chain([]) leaves nodes and neighbs unchanged.                       *)
(***************************************************************************)
C8_SingleNodeChainAddsNode ==
    [][(last'.op = "add_chain" /\ Len(last'.chain) <= 1) =>
          /\ neighbs' = neighbs
          /\ Len(last'.chain) = 1 => Contains(nodes', last'.chain[1])
          /\ Len(last'.chain) = 0 => nodes' = nodes
       ]_vars

(***************************************************************************)
(* C8 amended: add_chain of a chain of at most one node raises nothing and *)
(* leaves both nodes and neighbs unchanged (a single node x is not         *)
(* inserted).                                                              *)
(***************************************************************************)
C8_ShortChainChangesNothing ==
    [][(last'.op = "add_chain" /\ Len(last'.chain) <= 1) =>
          (nodes' = nodes /\ neighbs' = neighbs /\ raised' = "none")]_vars

\* add_chain([x]) has run on a Topology that holds nodes, and x is not among them.
C8_Witness ==
    /\ last.op = "add_chain"
    /\ Len(last.chain) = 1
    /\ nodes # <<>>
    /\ ~Contains(nodes, last.chain[1])

(***************************************************************************)
(* C9: from an empty Topology, ingesting chain A then chain B gives the    *)
(* same set of node values and the same set of edges (unordered pairs of   *)
(* node values) as ingesting B then A.                                     *)
(***************************************************************************)
C9_ChainOrderCommutes ==
    (last.op = "add_chains" /\ last.func = "identity" /\ Len(last.chains) = 2) =>
        LET swapped == add_chains(impl, EmptyTopology,
                                  <<last.chains[2], last.chains[1]>>, "identity")
        IN  /\ Range(nodes) = Range(swapped.nodes)
            /\ EdgeValues(nodes, neighbs) = EdgeValues(swapped.nodes, swapped.neighbs)

\* The same statement for the Topology of topologyfromtraceroute.py alone.
ChainOrderCommutesTraceroute == impl = "traceroute" => C9_ChainOrderCommutes

(***************************************************************************)
(* C10: add_chains maps every node through func before the collapse and    *)
(* the edge insertion: the call raises nothing, the edges are the pairs of *)
(* different adjacent projected nodes, and none is a self-loop.            *)
(* Chains [1.1.1.1, 1.1.1.2] and [1.1.1.3, 2.2.2.1] give, under            *)
(* get_network, the two nodes 1.1.1 and 2.2.2 and one edge; under the      *)
(* identity, the four hosts and one edge per chain.                        *)
(***************************************************************************)
ExampleChains == <<(<<H1, H2>>), (<<H3, H4>>)>>

C10_ProjectionBeforeCollapse ==
    last.op = "add_chains" =>
        /\ raised = "none"
        /\ \A k \in 1..Len(neighbs) : neighbs[k][1] # neighbs[k][2]
        /\ EdgeValues(nodes, neighbs) =
              UNION {AdjacentPairs(Projected(last.func, last.chains[k])) :
                        k \in 1..Len(last.chains)}
        /\ (last.chains = ExampleChains /\ last.func = "get_network") =>
              (nodes = <<(<<1, 1, 1>>), (<<2, 2, 2>>)>> /\ neighbs = <<(<<0, 1>>)>>)
        /\ (last.chains = ExampleChains /\ last.func = "identity") =>
              (nodes = <<H1, H2, H3, H4>> /\ neighbs = <<(<<0, 1>>), (<<2, 3>>)>>)

\* The same statement for the Topology of topologyfromtraceroute.py alone.
ProjectionBeforeCollapseTraceroute == impl = "traceroute" => C10_ProjectionBeforeCollapse

====
